---- MODULE Spec2Model ----
(***************************************************************************)
(* The two exploration scripts of initial_investigation/:                  *)
(*   analyze_data.py      per-day grouping, 1-day and 5-day samples        *)
(*   detailed_analysis.py mileage-tier and efficiency-tier grouping        *)
(* Each run loads the corpus once (Init) and then walks the script from    *)
(* top to bottom; pc is the position in the script, err the exception      *)
(* that ended the run, out the sequence of values handed to print.         *)
(* Numbers: miles, receipts and outputs are integers here; every quotient  *)
(* the scripts compute is kept as an exact reduced fraction <<n, d>>.      *)
(***************************************************************************)
EXTENDS Integers, Sequences, FiniteSets

VARIABLES prog, pc, err, i, data, by_days, one_day, similar_trips,
          efficiency_data, efficiency_buckets, five_day, out

vars == <<prog, pc, err, i, data, by_days, one_day, similar_trips,
          efficiency_data, efficiency_buckets, five_day, out>>

\* ------------------------------------------------------------- bounds
MaxLen == 6
MaxMiles == 130
MaxDays == 5

\* --------------------------------------------------- program constants
MILES_WIDTH == 50
EFF_WIDTH == 25
MIN_SIMILAR == 3
SHORT_TRIP_DAYS == 5
MIN_EFF_CASES == 5
SAMPLE_MAX == 5
ONE_DAY_HEAD == 10
FIVE_DAY_HEAD == 10
BASE_AMOUNT == 100
DAY_BASE == 100
SORTED_ONE_DAY_HEAD == 20
SORTED_FIVE_DAY_HEAD == 15

\* ---------------------------------------------------------------- cases
Case(d, m, r, o) ==
    [trip_duration_days |-> d, miles_traveled |-> m,
     total_receipts_amount |-> r, expected_output |-> o]

Case1 == Case(1, 100, 50, 150)
Case2 == Case(1, 200, 80, 220)

\* The records the corpus of a run of analyze_data.py is drawn from.
CasesA ==
    {Case1, Case2, Case(1, 0, 20, 110), Case(5, 120, 300, 700)}

\* The records the corpus of a run of detailed_analysis.py is drawn from.
CasesD ==
    {Case1, Case(1, 75, 90, 130), Case(5, 120, 300, 700), Case(6, 150, 40, 810)}

Corpora(U, n) == UNION {[1..k -> U] : k \in 0..n}

\* Single-record corpora over the whole range of days (zero included: the
\* loader checks no field) and miles.
KeyCorpora ==
    {<<Case(d, m, 7, 100)>> : d \in 0..MaxDays, m \in 0..MaxMiles}

\* ------------------------------------------------------------ fractions
Abs(x) == IF x < 0 THEN -x ELSE x

RECURSIVE GCD(_, _)
GCD(a, b) == IF b = 0 THEN a ELSE GCD(b, a % b)

\* n / d for d # 0, reduced, denominator positive.
Rat(n, d) ==
    LET s == IF d < 0 THEN -1 ELSE 1
        g == GCD(Abs(n), Abs(d))
    IN  <<(s * n) \div g, (s * d) \div g>>

RatAdd(a, b) == Rat(a[1] * b[2] + b[1] * a[2], a[2] * b[2])
RatDivInt(a, k) == Rat(a[1], a[2] * k)
RatLess(a, b) == a[1] * b[2] < b[1] * a[2]

RECURSIVE Sum(_)
Sum(xs) == IF xs = <<>> THEN 0 ELSE Head(xs) + Sum(Tail(xs))

RECURSIVE RatSum(_)
RatSum(qs) == IF qs = <<>> THEN <<0, 1>> ELSE RatAdd(Head(qs), RatSum(Tail(qs)))

\* statistics.mean with floor division in place of true division.
MeanFloorDiv(xs) == <<Sum(xs) \div Len(xs), 1>>

\* statistics.mean of a non-empty list of integers.
Mean(xs) == Rat(Sum(xs), Len(xs))

\* statistics.mean of a non-empty list of quotients.
RatMean(qs) == RatDivInt(RatSum(qs), Len(qs))

\* round() with every tie rounded up.
RoundHalfUp(q) ==
    LET f == q[1] \div q[2]
        r == q[1] % q[2]
    IN  IF 2 * r < q[2] THEN f ELSE f + 1

\* Python 3 round(x) of a quotient: nearest integer, ties to the even one.
PyRound(q) ==
    LET f == q[1] \div q[2]
        r == q[1] % q[2]
    IN  IF 2 * r < q[2] THEN f
        ELSE IF 2 * r > q[2] THEN f + 1
        ELSE IF f % 2 = 0 THEN f ELSE f + 1

\* ---------------------------------------------------------------- lists
Take(s, n) == SubSeq(s, 1, IF Len(s) < n THEN Len(s) ELSE n)

\* list.sort(key=...) / sorted(): stable and ascending; ks[j] is the key of
\* s[j], a fraction.
StableSort(s, ks) ==
    LET Before(a, b) == RatLess(ks[a], ks[b]) \/ (~RatLess(ks[b], ks[a]) /\ a < b)
        Rank(a) == Cardinality({b \in 1..Len(s) : Before(b, a)}) + 1
    IN  [p \in 1..Len(s) |-> s[CHOOSE a \in 1..Len(s) : Rank(a) = p]]

\* sorted(xs) of integers.
SortedInts(xs) == StableSort(xs, [j \in 1..Len(xs) |-> <<xs[j], 1>>])

\* ---------------------------------------------------------------- dicts
\* A dict is the sequence of its entries [key, val] in insertion order.
DictHas(d, k) == \E j \in 1..Len(d) : d[j].key = k
DictIndex(d, k) == CHOOSE j \in 1..Len(d) : d[j].key = k
DictGet(d, k) == d[DictIndex(d, k)].val
DictKeys(d) == [j \in 1..Len(d) |-> d[j].key]

\* d[k] = [x] whether or not k is present.
DictOverwrite(d, k, x) ==
    IF DictHas(d, k)
    THEN [d EXCEPT ![DictIndex(d, k)].val = <<x>>]
    ELSE Append(d, [key |-> k, val |-> <<x>>])

\* if k not in d: d[k] = []; d[k].append(x)   (also defaultdict(list))
DictAppend(d, k, x) ==
    IF DictHas(d, k)
    THEN [d EXCEPT ![DictIndex(d, k)].val = Append(@, x)]
    ELSE Append(d, [key |-> k, val |-> <<x>>])

\* ------------------------------------------------------ analyze_data.py
Outputs(cases) == [j \in 1..Len(cases) |-> cases[j].expected_output]

\* by_days after "for case in cases: by_days[days].append(case)" from d.
RECURSIVE GroupDays(_, _)
GroupDays(d, cases) ==
    IF cases = <<>> THEN d
    ELSE GroupDays(DictAppend(d, Head(cases).trip_duration_days, Head(cases)),
                   Tail(cases))

\* by_days = {} and the loop that fills it.
GroupByDays ==
    /\ prog = "analyze_data" /\ pc = "by_days" /\ err = "none"
    /\ by_days' = GroupDays(<<>>, data)
    /\ pc' = "per_day"
    /\ i' = 1
    /\ UNCHANGED <<prog, err, data, one_day, similar_trips, efficiency_data,
                   efficiency_buckets, five_day, out>>

\* sorted(by_days.keys()) with the keys left in insertion order.
UnsortedDayKeys == DictKeys(by_days)

\* sorted(by_days.keys())
SortedDayKeys == SortedInts(DictKeys(by_days))

\* One iteration of "for days in sorted(by_days.keys())".
PerDayReport ==
    /\ prog = "analyze_data" /\ pc = "per_day" /\ err = "none"
    /\ i <= Len(by_days)
    /\ LET days == SortedDayKeys[i]
           cases == DictGet(by_days, days)
           outputs == Outputs(cases)
       IN  IF outputs = <<>>
           THEN err' = "StatisticsError" /\ UNCHANGED <<i, out>>
           ELSE IF days = 0
           THEN err' = "ZeroDivisionError" /\ UNCHANGED <<i, out>>
           ELSE /\ out' = Append(out,
                      [section |-> "per_day", key |-> days, count |-> Len(cases),
                       avg_output |-> Mean(outputs),
                       avg_per_day |-> RatDivInt(Mean(outputs), days),
                       cases |-> IF Len(cases) <= SAMPLE_MAX THEN cases ELSE <<>>])
                /\ i' = i + 1
                /\ err' = err
    /\ UNCHANGED <<prog, pc, data, by_days, one_day, similar_trips,
                   efficiency_data, efficiency_buckets, five_day>>

PerDayReportEnd ==
    /\ prog = "analyze_data" /\ pc = "per_day" /\ err = "none"
    /\ i > Len(by_days)
    /\ pc' = "one_day_rate"
    /\ UNCHANGED <<prog, err, i, data, by_days, one_day, similar_trips,
                   efficiency_data, efficiency_buckets, five_day, out>>

\* remaining / miles if miles > 0 else 0
ImpliedRate(case) ==
    IF case.miles_traveled > 0
    THEN Rat(case.expected_output - BASE_AMOUNT, case.miles_traveled)
    ELSE <<0, 1>>

\* one_day_cases = by_days[1][:10] and its loop.
OneDayRates ==
    /\ prog = "analyze_data" /\ pc = "one_day_rate" /\ err = "none"
    /\ IF ~DictHas(by_days, 1)
       THEN err' = "KeyError" /\ UNCHANGED <<pc, out>>
       ELSE LET cs == Take(DictGet(by_days, 1), ONE_DAY_HEAD)
            IN  /\ out' = Append(out,
                       [section |-> "one_day_rate",
                        rows |-> [j \in 1..Len(cs) |->
                                    [case |-> cs[j], rate |-> ImpliedRate(cs[j])]]])
                /\ pc' = "five_day_bonus"
                /\ err' = err
    /\ UNCHANGED <<prog, i, data, by_days, one_day, similar_trips,
                   efficiency_data, efficiency_buckets, five_day>>

\* five_day_cases = by_days[5][:10] and its loop.
FiveDayBonus ==
    /\ prog = "analyze_data" /\ pc = "five_day_bonus" /\ err = "none"
    /\ IF ~DictHas(by_days, 5)
       THEN err' = "KeyError" /\ UNCHANGED <<pc, out>>
       ELSE LET cs == Take(DictGet(by_days, 5), FIVE_DAY_HEAD)
            IN  IF \E j \in 1..Len(cs) : cs[j].trip_duration_days = 0
                THEN err' = "ZeroDivisionError" /\ UNCHANGED <<pc, out>>
                ELSE /\ out' = Append(out,
                            [section |-> "five_day_bonus",
                             rows |-> [j \in 1..Len(cs) |->
                                 [case |-> cs[j],
                                  bonus |-> cs[j].expected_output - 5 * DAY_BASE,
                                  efficiency |-> Rat(cs[j].miles_traveled,
                                                     cs[j].trip_duration_days)]]])
                     /\ pc' = "done"
                     /\ err' = err
    /\ UNCHANGED <<prog, i, data, by_days, one_day, similar_trips,
                   efficiency_data, efficiency_buckets, five_day>>

NextA ==
    \/ GroupByDays
    \/ PerDayReport
    \/ PerDayReportEnd
    \/ OneDayRates
    \/ FiveDayBonus

\* ------------------------------------------------- detailed_analysis.py
Filter(s, days) == SelectSeq(s, LAMBDA c : c.trip_duration_days = days)

\* key=lambda x: x['input']['miles_traveled']
SortByMiles(s) == StableSort(s, [j \in 1..Len(s) |-> <<s[j].miles_traveled, 1>>])

\* key=lambda x: x['input']['total_receipts_amount']
SortByReceipts(s) ==
    StableSort(s, [j \in 1..Len(s) |-> <<s[j].total_receipts_amount, 1>>])

\* key=lambda x: x['input']['miles_traveled'] / 5
SortByEfficiency(s) ==
    StableSort(s, [j \in 1..Len(s) |-> Rat(s[j].miles_traveled, 5)])

\* The 1-day section with the filter result aliasing data: data.sort(...).
OneDayTripsInPlace ==
    /\ prog = "detailed_analysis" /\ pc = "one_day" /\ err = "none"
    /\ data' = SortByMiles(data)
    /\ one_day' = Filter(data', 1)
    /\ out' = Append(out, [section |-> "one_day_sorted",
                           cases |-> Take(one_day', SORTED_ONE_DAY_HEAD)])
    /\ pc' = "similar"
    /\ UNCHANGED <<prog, err, i, by_days, similar_trips, efficiency_data,
                   efficiency_buckets, five_day>>

\* one_day = [case for case in data if days == 1]; one_day.sort(...); print.
OneDayTrips ==
    /\ prog = "detailed_analysis" /\ pc = "one_day" /\ err = "none"
    /\ one_day' = SortByMiles(Filter(data, 1))
    /\ out' = Append(out, [section |-> "one_day_sorted",
                           cases |-> Take(one_day', SORTED_ONE_DAY_HEAD)])
    /\ pc' = "similar"
    /\ UNCHANGED <<prog, err, i, data, by_days, similar_trips, efficiency_data,
                   efficiency_buckets, five_day>>

\* round(miles / 50) * 50
MilesBucket(miles) == PyRound(Rat(miles, MILES_WIDTH)) * MILES_WIDTH

\* key = (days, miles_bucket)
SimilarKey(case) == <<case.trip_duration_days, MilesBucket(case.miles_traveled)>>

\* similar_trips after "for case in cases: similar_trips[key].append(case)".
RECURSIVE GroupSimilarTrips(_, _)
GroupSimilarTrips(d, cases) ==
    IF cases = <<>> THEN d
    ELSE GroupSimilarTrips(DictAppend(d, SimilarKey(Head(cases)), Head(cases)),
                           Tail(cases))

\* similar_trips = defaultdict(list) and the loop that fills it.
GroupSimilar ==
    /\ prog = "detailed_analysis" /\ pc = "similar" /\ err = "none"
    /\ similar_trips' = GroupSimilarTrips(<<>>, data)
    /\ pc' = "report_similar"
    /\ i' = 1
    /\ UNCHANGED <<prog, err, data, by_days, one_day, efficiency_data,
                   efficiency_buckets, five_day, out>>

\* The size test written with > for >=.
ReportedSimilarStrict(entry) ==
    Len(entry.val) > MIN_SIMILAR /\ entry.key[1] <= SHORT_TRIP_DAYS

\* if len(cases) >= 3 and key[0] <= 5
ReportedSimilar(entry) ==
    Len(entry.val) >= MIN_SIMILAR /\ entry.key[1] <= SHORT_TRIP_DAYS

\* One iteration of "for key, cases in similar_trips.items()".
ReportSimilar ==
    /\ prog = "detailed_analysis" /\ pc = "report_similar" /\ err = "none"
    /\ i <= Len(similar_trips)
    /\ IF ReportedSimilar(similar_trips[i])
       THEN /\ similar_trips' = [similar_trips EXCEPT ![i].val = SortByReceipts(@)]
            /\ out' = Append(out, [section |-> "similar",
                                   key |-> similar_trips[i].key,
                                   cases |-> similar_trips'[i].val])
       ELSE UNCHANGED <<similar_trips, out>>
    /\ i' = i + 1
    /\ UNCHANGED <<prog, pc, err, data, by_days, one_day, efficiency_data,
                   efficiency_buckets, five_day>>

ReportSimilarEnd ==
    /\ prog = "detailed_analysis" /\ pc = "report_similar" /\ err = "none"
    /\ i > Len(similar_trips)
    /\ pc' = "efficiency_data"
    /\ i' = 1
    /\ UNCHANGED <<prog, err, data, by_days, one_day, similar_trips,
                   efficiency_data, efficiency_buckets, five_day, out>>

\* The (efficiency, case) pairs of the cases, in order.
Efficiencies(cases) ==
    [j \in 1..Len(cases) |->
        <<Rat(cases[j].miles_traveled, cases[j].trip_duration_days), cases[j]>>]

\* The cases before the first one with trip_duration_days = 0.
RECURSIVE BeforeZeroDays(_)
BeforeZeroDays(cases) ==
    IF cases = <<>> \/ Head(cases).trip_duration_days = 0 THEN <<>>
    ELSE <<Head(cases)>> \o BeforeZeroDays(Tail(cases))

\* efficiency_data = [] and the loop that fills it.
EfficiencyData ==
    /\ prog = "detailed_analysis" /\ pc = "efficiency_data" /\ err = "none"
    /\ efficiency_data' = Efficiencies(BeforeZeroDays(data))
    /\ IF \E j \in 1..Len(data) : data[j].trip_duration_days = 0
       THEN err' = "ZeroDivisionError" /\ pc' = pc
       ELSE err' = err /\ pc' = "efficiency_buckets"
    /\ UNCHANGED <<prog, i, data, by_days, one_day, similar_trips,
                   efficiency_buckets, five_day, out>>

\* round(eff / 25) * 25
EfficiencyBucket(eff) == PyRound(RatDivInt(eff, EFF_WIDTH)) * EFF_WIDTH

\* efficiency_buckets after the loop over the (eff, case) pairs.
RECURSIVE GroupEfficiencies(_, _)
GroupEfficiencies(d, pairs) ==
    IF pairs = <<>> THEN d
    ELSE GroupEfficiencies(
            DictAppend(d, EfficiencyBucket(Head(pairs)[1]), Head(pairs)),
            Tail(pairs))

\* efficiency_buckets = defaultdict(list) and the loop that fills it.
GroupEfficiency ==
    /\ prog = "detailed_analysis" /\ pc = "efficiency_buckets" /\ err = "none"
    /\ efficiency_buckets' = GroupEfficiencies(<<>>, efficiency_data)
    /\ pc' = "report_efficiency"
    /\ i' = 1
    /\ UNCHANGED <<prog, err, data, by_days, one_day, similar_trips,
                   efficiency_data, five_day, out>>

\* mean(outputs) / days of the first case, for the mean of output / days.
MeanOverFirstDays(cases) ==
    RatDivInt(Mean([j \in 1..Len(cases) |-> cases[j][2].expected_output]),
              cases[1][2].trip_duration_days)

\* statistics.mean([case['expected_output'] / days for _, case in cases])
AvgOutputPerDay(cases) ==
    RatMean([j \in 1..Len(cases) |->
                Rat(cases[j][2].expected_output, cases[j][2].trip_duration_days)])

\* One iteration of "for bucket in sorted(efficiency_buckets.keys())".
ReportEfficiency ==
    /\ prog = "detailed_analysis" /\ pc = "report_efficiency" /\ err = "none"
    /\ i <= Len(efficiency_buckets)
    /\ LET bucket == SortedInts(DictKeys(efficiency_buckets))[i]
           cases == DictGet(efficiency_buckets, bucket)
       IN  IF Len(cases) >= MIN_EFF_CASES
           THEN IF \E j \in 1..Len(cases) : cases[j][2].trip_duration_days = 0
                THEN err' = "ZeroDivisionError" /\ UNCHANGED <<i, out>>
                ELSE /\ out' = Append(out, [section |-> "efficiency",
                                            key |-> bucket, count |-> Len(cases),
                                            avg_per_day |-> AvgOutputPerDay(cases)])
                     /\ i' = i + 1
                     /\ err' = err
           ELSE i' = i + 1 /\ UNCHANGED <<err, out>>
    /\ UNCHANGED <<prog, pc, data, by_days, one_day, similar_trips,
                   efficiency_data, efficiency_buckets, five_day>>

ReportEfficiencyEnd ==
    /\ prog = "detailed_analysis" /\ pc = "report_efficiency" /\ err = "none"
    /\ i > Len(efficiency_buckets)
    /\ pc' = "five_day"
    /\ UNCHANGED <<prog, err, i, data, by_days, one_day, similar_trips,
                   efficiency_data, efficiency_buckets, five_day, out>>

\* five_day = [...]; five_day.sort(...); print the first 15.
FiveDayTrips ==
    /\ prog = "detailed_analysis" /\ pc = "five_day" /\ err = "none"
    /\ five_day' = SortByEfficiency(Filter(data, 5))
    /\ LET cs == Take(five_day', SORTED_FIVE_DAY_HEAD)
       IN  out' = Append(out,
                    [section |-> "five_day_sorted",
                     rows |-> [j \in 1..Len(cs) |->
                         [case |-> cs[j],
                          efficiency |-> Rat(cs[j].miles_traveled, 5),
                          receipts_per_day |-> Rat(cs[j].total_receipts_amount, 5)]]])
    /\ pc' = "done"
    /\ UNCHANGED <<prog, err, i, data, by_days, one_day, similar_trips,
                   efficiency_data, efficiency_buckets>>

NextD ==
    \/ OneDayTrips
    \/ GroupSimilar
    \/ ReportSimilar
    \/ ReportSimilarEnd
    \/ EfficiencyData
    \/ GroupEfficiency
    \/ ReportEfficiency
    \/ ReportEfficiencyEnd
    \/ FiveDayTrips

\* ------------------------------------------------------- specifications
Fresh ==
    /\ err = "none"
    /\ i = 1
    /\ by_days = <<>>
    /\ one_day = <<>>
    /\ similar_trips = <<>>
    /\ efficiency_data = <<>>
    /\ efficiency_buckets = <<>>
    /\ five_day = <<>>
    /\ out = <<>>

InitA ==
    /\ prog = "analyze_data"
    /\ pc = "by_days"
    /\ data \in Corpora(CasesA, MaxLen)
    /\ Fresh

InitD ==
    /\ prog = "detailed_analysis"
    /\ pc = "one_day"
    /\ data \in Corpora(CasesD, MaxLen)
    /\ Fresh

InitKeys ==
    /\ \/ prog = "analyze_data" /\ pc = "by_days"
       \/ prog = "detailed_analysis" /\ pc = "one_day"
    /\ data \in KeyCorpora
    /\ Fresh

Init == InitA \/ InitD

Next == NextA \/ NextD

\* A run of either script on a corpus of up to MaxLen records, each with
\* trip_duration_days >= 1.
Spec == Init /\ [][Next]_vars

\* A run of either script on one record of any days and miles.
SpecKeys == InitKeys /\ [][Next]_vars

\* ------------------------------------------------------------- claims
Range(s) == {s[j] : j \in 1..Len(s)}
Count(s, c) == Cardinality({j \in 1..Len(s) : s[j] = c})
Section(name) == SelectSeq(out, LAMBDA r : r.section = name)
EffCases(val) == [j \in 1..Len(val) |-> val[j][2]]
EffKey(case) ==
    EfficiencyBucket(Rat(case.miles_traveled, case.trip_duration_days))

\* The grouping loop of each pass has finished.
ByDaysBuilt == prog = "analyze_data" /\ pc # "by_days"
SimilarBuilt == prog = "detailed_analysis" /\ pc \notin {"one_day", "similar"}
EfficiencyBuilt ==
    prog = "detailed_analysis" /\ pc \in {"report_efficiency", "five_day", "done"}
SimilarReported ==
    prog = "detailed_analysis" /\ pc \notin {"one_day", "similar", "report_similar"}
EfficiencyReported == prog = "detailed_analysis" /\ pc \in {"five_day", "done"}

ByDaysGroups == [j \in 1..Len(by_days) |-> by_days[j].val]
SimilarGroups == [j \in 1..Len(similar_trips) |-> similar_trips[j].val]
EfficiencyGroups ==
    [j \in 1..Len(efficiency_buckets) |-> EffCases(efficiency_buckets[j].val)]

\* The groups hold every record of the corpus once per occurrence, each
\* record in one group only, and nothing else.
Partitions(groups) ==
    /\ Sum([j \in 1..Len(groups) |-> Len(groups[j])]) = Len(data)
    /\ \A c \in Range(data) :
          /\ Cardinality({j \in 1..Len(groups) : Count(groups[j], c) > 0}) = 1
          /\ Sum([j \in 1..Len(groups) |-> Count(groups[j], c)]) = Count(data, c)

\* C1: once a grouping loop has finished (per-day, mileage-tier, efficiency-
\* tier), its groups are a partition of the corpus as a multiset: every case
\* is in exactly one group, as often as it occurs in the corpus.
C1_GroupingComplete ==
    /\ ByDaysBuilt => Partitions(ByDaysGroups)
    /\ SimilarBuilt => Partitions(SimilarGroups)
    /\ EfficiencyBuilt => Partitions(EfficiencyGroups)

C1_Witness ==
    /\ prog = "detailed_analysis" /\ pc = "done"
    /\ Len(similar_trips) >= 2
    /\ Len(efficiency_buckets) >= 2
    /\ \E c \in Range(data) : Count(data, c) >= 2

\* C2: at every step after a grouping loop has finished, each group is the
\* subsequence of the corpus with the group's key, in corpus order.
C2_GroupsKeepCorpusOrder ==
    /\ ByDaysBuilt =>
          \A j \in 1..Len(by_days) :
             by_days[j].val =
                SelectSeq(data, LAMBDA c : c.trip_duration_days = by_days[j].key)
    /\ SimilarBuilt =>
          \A j \in 1..Len(similar_trips) :
             similar_trips[j].val =
                SelectSeq(data, LAMBDA c : SimilarKey(c) = similar_trips[j].key)
    /\ EfficiencyBuilt =>
          \A j \in 1..Len(efficiency_buckets) :
             EffCases(efficiency_buckets[j].val) =
                SelectSeq(data, LAMBDA c : EffKey(c) = efficiency_buckets[j].key)

\* b is a multiple of n nearest to the fraction x, and the even multiple
\* when x lies exactly between two multiples.
NearestMultiple(b, x, n) ==
    LET dist == Abs(b * x[2] - x[1])
    IN  /\ b % n = 0
        /\ 2 * dist <= n * x[2]
        /\ 2 * dist = n * x[2] => (b \div n) % 2 = 0

\* C3: every mileage bucket is a multiple of 50 nearest to the miles, every
\* efficiency bucket a multiple of 25 nearest to miles/days, and every exact
\* tie goes to the even multiple (25 -> 0, 75 -> 100, 125 -> 100 miles);
\* efficiencies 24 and 26 both go to tier 25.
C3_BucketRounding ==
    /\ \A j \in 1..Len(similar_trips) : \A c \in Range(similar_trips[j].val) :
          NearestMultiple(similar_trips[j].key[2], <<c.miles_traveled, 1>>,
                          MILES_WIDTH)
    /\ \A j \in 1..Len(efficiency_buckets) :
          \A t \in Range(efficiency_buckets[j].val) :
             /\ t[1][1] * t[2].trip_duration_days = t[2].miles_traveled * t[1][2]
             /\ NearestMultiple(efficiency_buckets[j].key, t[1], EFF_WIDTH)
    /\ \A j \in 1..Len(similar_trips) : \A c \in Range(similar_trips[j].val) :
          /\ c.miles_traveled = 25 => similar_trips[j].key[2] = 0
          /\ c.miles_traveled = 75 => similar_trips[j].key[2] = 100
          /\ c.miles_traveled = 125 => similar_trips[j].key[2] = 100
    /\ \A j \in 1..Len(efficiency_buckets) :
          \A t \in Range(efficiency_buckets[j].val) :
             (t[2].trip_duration_days = 5 /\ t[2].miles_traveled \in {120, 130})
                => efficiency_buckets[j].key = 25

\* 75 miles in 2 days: a tie for the mileage bucket (1.5 * 50) and for the
\* efficiency bucket (37.5 = 1.5 * 25), both bucketed.
C3_Witness ==
    /\ pc = "done"
    /\ Len(data) = 1
    /\ data[1].miles_traveled = 75 /\ data[1].trip_duration_days = 2
    /\ DictKeys(similar_trips) = << <<2, 100>> >>
    /\ DictKeys(efficiency_buckets) = <<50>>

\* C4: no division is ever executed with a zero divisor.
C4_NoZeroDivision == err # "ZeroDivisionError"

KeyLess(a, b) == a[1] < b[1] \/ (a[1] = b[1] /\ a[2] < b[2])
Keys(recs) == [j \in 1..Len(recs) |-> recs[j].key]
AscendingInts(ks) == \A a, b \in 1..Len(ks) : a < b => ks[a] < ks[b]
AscendingPairs(ks) == \A a, b \in 1..Len(ks) : a < b => KeyLess(ks[a], ks[b])
FirstIndex(k) ==
    CHOOSE j \in 1..Len(data) :
       /\ SimilarKey(data[j]) = k
       /\ \A h \in 1..(j - 1) : SimilarKey(data[h]) # k

C6_ObservedKeysOnly ==
    /\ \A j \in 1..Len(by_days) :
          /\ by_days[j].val # <<>>
          /\ \E c \in Range(data) : c.trip_duration_days = by_days[j].key
    /\ \A j \in 1..Len(similar_trips) :
          /\ similar_trips[j].val # <<>>
          /\ \E c \in Range(data) : SimilarKey(c) = similar_trips[j].key
    /\ \A j \in 1..Len(efficiency_buckets) :
          /\ efficiency_buckets[j].val # <<>>
          /\ \E c \in Range(data) : EffKey(c) = efficiency_buckets[j].key
    /\ err \notin {"KeyError", "StatisticsError"}

\* C7: every reported per-day mean is the sum of expected_output over the
\* corpus cases with that day count divided by their number; the corpus
\* [Case1, Case2] gives the single group 1 -> [Case1, Case2] with mean 185.
C7_MeanInvariance ==
    /\ \A r \in Range(Section("per_day")) :
          LET g == SelectSeq(data, LAMBDA c : c.trip_duration_days = r.key)
          IN  /\ r.count = Len(g)
              /\ r.avg_output[2] > 0
              /\ r.avg_output[1] * Len(g) = Sum(Outputs(g)) * r.avg_output[2]
    /\ (data = <<Case1, Case2>> /\ ByDaysBuilt) =>
          by_days = <<[key |-> 1, val |-> <<Case1, Case2>>]>>
    /\ (data = <<Case1, Case2>> /\ ByDaysBuilt /\ pc # "per_day") =>
          /\ Len(Section("per_day")) = 1
          /\ Section("per_day")[1].key = 1
          /\ Section("per_day")[1].avg_output = <<185, 1>>

C7_Witness ==
    /\ data = <<Case1, Case2>>
    /\ pc = "one_day_rate"
    /\ Len(out) = 1
    /\ out[1].avg_output = <<185, 1>>

SimilarKeysOf == {SimilarKey(c) : c \in Range(data)}
EffKeysOf == {EffKey(c) : c \in Range(data)}
SimilarSize(k) == Cardinality({j \in 1..Len(data) : SimilarKey(data[j]) = k})
EffSize(k) == Cardinality({j \in 1..Len(data) : EffKey(data[j]) = k})
SameCases(s, t) ==
    Len(s) = Len(t) /\ \A c \in Range(s) \cup Range(t) : Count(s, c) = Count(t, c)

\* Each reported group is reported once, with all of its cases.
ReportedWhole ==
    /\ SimilarReported =>
          LET sim == Section("similar")
          IN  /\ Cardinality(Range(Keys(sim))) = Len(sim)
              /\ \A a \in 1..Len(sim) :
                    SameCases(sim[a].cases,
                              SelectSeq(data, LAMBDA c : SimilarKey(c) = sim[a].key))
    /\ EfficiencyReported =>
          LET eff == Section("efficiency")
          IN  /\ Cardinality(Range(Keys(eff))) = Len(eff)
              /\ \A a \in 1..Len(eff) : eff[a].count = EffSize(eff[a].key)

\* C8 as stated: a group is reported if and only if it has at least the
\* threshold's number of cases (3 for mileage tiers, 5 for efficiency tiers).
C8_SizeAloneDecides ==
    /\ SimilarReported =>
          LET reported == Range(Keys(Section("similar")))
          IN  \A k \in SimilarKeysOf :
                 k \in reported <=> SimilarSize(k) >= MIN_SIMILAR
    /\ EfficiencyReported =>
          LET reported == Range(Keys(Section("efficiency")))
          IN  \A k \in EffKeysOf : k \in reported <=> EffSize(k) >= MIN_EFF_CASES
    /\ ReportedWhole

\* C8 amended: a mileage-tier group is reported if and only if it has at
\* least 3 cases and its day count is at most 5; an efficiency-tier group if
\* and only if it has at least 5 cases; a reported group is reported once,
\* with all of its cases.
C8_MinSizeFilter ==
    /\ SimilarReported =>
          LET reported == Range(Keys(Section("similar")))
          IN  \A k \in SimilarKeysOf :
                 k \in reported
                    <=> (SimilarSize(k) >= MIN_SIMILAR /\ k[1] <= SHORT_TRIP_DAYS)
    /\ EfficiencyReported =>
          LET reported == Range(Keys(Section("efficiency")))
          IN  \A k \in EffKeysOf : k \in reported <=> EffSize(k) >= MIN_EFF_CASES
    /\ ReportedWhole

C8_Witness ==
    /\ prog = "detailed_analysis" /\ pc = "done"
    /\ \E k \in SimilarKeysOf :
          /\ SimilarSize(k) >= MIN_SIMILAR
          /\ k[1] > SHORT_TRIP_DAYS
          /\ k \notin Range(Keys(Section("similar")))
    /\ Section("similar") # <<>>
    /\ Section("efficiency") # <<>>

PerCaseMean(g) ==
    RatMean([j \in 1..Len(g) |->
                Rat(g[j].expected_output, g[j].trip_duration_days)])

\* C9: a reported efficiency-tier average per day is the mean of the per-case
\* expected_output / days over the tier's cases; a reported per-day average
\* (group mean divided by the key) is over cases that all have that day
\* count, and equals the per-case mean of expected_output / days.
C9_PerUnitMean ==
    /\ \A r \in Range(Section("efficiency")) :
          r.avg_per_day =
             PerCaseMean(SelectSeq(data, LAMBDA c : EffKey(c) = r.key))
    /\ \A r \in Range(Section("per_day")) :
          LET g == DictGet(by_days, r.key)
          IN  /\ \A c \in Range(g) : c.trip_duration_days = r.key
              /\ r.avg_per_day = PerCaseMean(g)

C9_Witness ==
    \E r \in Range(Section("efficiency")) :
       \E c, e \in Range(data) :
          /\ EffKey(c) = r.key /\ EffKey(e) = r.key
          /\ c.trip_duration_days # e.trip_duration_days

\* C10: no step changes the corpus, and the efficiency-tier groups are the
\* groups of the corpus as loaded, in corpus order.
C10_CorpusReadOnly ==
    /\ [][data' = data]_vars
    /\ [](EfficiencyBuilt =>
            /\ \A c \in Range(data) : DictHas(efficiency_buckets, EffKey(c))
            /\ \A j \in 1..Len(efficiency_buckets) :
                  efficiency_buckets[j].val =
                     SelectSeq([h \in 1..Len(data) |->
                                   <<Rat(data[h].miles_traveled,
                                         data[h].trip_duration_days), data[h]>>],
                               LAMBDA t : EffKey(t[2]) = efficiency_buckets[j].key))

\* Both sorts of the one-day list and of a mileage-tier group changed an
\* order, and the run went on to its end.
C10_Witness ==
    /\ prog = "detailed_analysis" /\ pc = "done"
    /\ one_day # Filter(data, 1)
    /\ \E j \in 1..Len(similar_trips) :
          similar_trips[j].val #
             SelectSeq(data, LAMBDA c : SimilarKey(c) = similar_trips[j].key)

====
